---- MODULE Spec2Model ----
(***************************************************************************)
(* drive-untrash, the concurrent variant with the seen map                 *)
(* (src/main.go, second program, lines 258-527).                           *)
(*                                                                         *)
(* main calls processFolder for every root argument (or once for the      *)
(* whole store).  processFolder claims the folder id in the seen map,      *)
(* lists the folder page by page through the pacer and starts one          *)
(* goroutine per page, which runs restoreTrashed.  restoreTrashed starts   *)
(* one goroutine per explicitly trashed child (the untrash call) and       *)
(* calls processFolder synchronously for every child folder.  main waits   *)
(* on the WaitGroup and prints the two counters.                           *)
(***************************************************************************)
EXTENDS Integers, Sequences, FiniteSets, TLC

(***************************************************************************)
(* Bounds of the model and constants of the program.                       *)
(***************************************************************************)
\* How many remote calls of one run may meet a failing remote.
MaxFaults == 2
\* p.SetRetries(50)
Retries == 50
\* p.SetMaxConnections(100)
MaxConnections == 100

(***************************************************************************)
(* Error values (Go's error interface as seen by shouldRetry).             *)
(*   kind "nil"   : no error                                               *)
(*   kind "api"   : *googleapi.Error with Code and Errors[].Reason         *)
(*   kind "other" : any other error type (a transport error, ...)          *)
(***************************************************************************)
NilErr == [kind |-> "nil", code |-> 0, reasons |-> << >>]
OtherErr == [kind |-> "other", code |-> 0, reasons |-> << >>]
ApiErr(c, rs) == [kind |-> "api", code |-> c, reasons |-> rs]

\* The mutant of shouldRetry that forgets the 5xx branch.
shouldRetry_No5xx(err) ==
    IF err.kind = "api"
         /\ Len(err.reasons) > 0
         /\ err.reasons[1] \in {"rateLimitExceeded", "userRateLimitExceeded"}
    THEN <<TRUE, err>>
    ELSE <<FALSE, err>>

\* The mutant of shouldRetry that takes 600 for a 5xx code.
shouldRetry_Upto600(err) ==
    IF err.kind = "api"
    THEN IF err.code >= 500 /\ err.code <= 600
         THEN <<TRUE, err>>
         ELSE IF Len(err.reasons) > 0
                   /\ err.reasons[1] \in {"rateLimitExceeded", "userRateLimitExceeded"}
              THEN <<TRUE, err>>
              ELSE <<FALSE, err>>
    ELSE <<FALSE, err>>

\* The mutant of shouldRetry that retries every API error.
shouldRetry_AllApi(err) ==
    IF err.kind = "api" THEN <<TRUE, err>> ELSE <<FALSE, err>>

\* shouldRetry: <<retry, err>>.
shouldRetry(err) ==
    IF err.kind = "api"
    THEN IF err.code >= 500 /\ err.code < 600
         THEN <<TRUE, err>>
         ELSE IF Len(err.reasons) > 0
                   /\ err.reasons[1] \in {"rateLimitExceeded", "userRateLimitExceeded"}
              THEN <<TRUE, err>>
              ELSE <<FALSE, err>>
    ELSE <<FALSE, err>>

(***************************************************************************)
(* The remote store.  It is an input of the program: a run starts on one   *)
(* of the stores below.  A store gives the root arguments, the folders, the *)
(* trash flag of every item and, for every scope, the pages in which the   *)
(* remote hands out the items of that scope.                               *)
(*   flag "explicit" : trashed by the user (explicitlyTrashed = true)      *)
(*   flag "implicit" : trashed only because an ancestor is trashed         *)
(*   flag "none"     : not trashed                                         *)
(* A successful untrash call sets the item's flag to "none"; the flags of  *)
(* the other items stay as they are.                                       *)
(***************************************************************************)
Root == ""
Items == {"A", "B", "F1", "F2"}
Scopes == {Root, "A", "B"}
Stores == {"shared", "whole", "outage"}

\* flag.Args()
Args(s) ==
    CASE s = "shared" -> <<"A", "B", "A">>
      [] s = "outage" -> <<"A">>
      [] OTHER -> << >>

IsFolder(s, id) ==
    IF s = "whole" THEN id \in {"A"} ELSE id \in {"A", "B"}

Flag0(s) ==
    IF s = "shared"
    THEN [id \in Items |->
            CASE id = "A" -> "none"
              [] id = "B" -> "explicit"
              [] id = "F1" -> "explicit"
              [] OTHER -> "implicit"]
    ELSE [id \in Items |->
            CASE id = "A" -> "none"
              [] id = "B" -> "none"
              [] OTHER -> "explicit"]

\* The items of a scope, page by page, as the remote orders them.  In the
\* store "shared" folder B is a child of A and A is a child of B (a cycle),
\* B is also a root argument and A is given twice; B is explicitly trashed
\* and F2 is trashed only through it.  In the store "whole" the unscoped
\* listing has three pages and F1 lies in folder A.  In the store "outage"
\* B lies in A, next to F1, and F2 lies in B.
Listing(s, scope) ==
    CASE s = "shared" ->
            (CASE scope = "A" -> << <<"B", "F1">>, <<"F2">> >>
               [] scope = "B" -> << <<"A">> >>
               [] OTHER -> << << >> >>)
      [] s = "whole" ->
            (CASE scope = Root -> << <<"A">>, <<"F1">>, <<"F2">> >>
               [] scope = "A" -> << <<"F1">> >>
               [] OTHER -> << << >> >>)
      [] OTHER ->
            (CASE scope = "A" -> << <<"F1", "B">> >>
               [] scope = "B" -> << <<"F2">> >>
               [] OTHER -> << << >> >>)

(***************************************************************************)
(* What the remote answers to the attempts of one call.  A script is       *)
(* chosen when the call makes its first attempt.                           *)
(*   "ok"      : no error                                                  *)
(*   "e404"    : 404 notFound                                              *)
(*   "r503x4"  : 503 four times, then no error                             *)
(*   "rate"    : 403 rateLimitExceeded, 403 userRateLimitExceeded, then no *)
(*               error                                                     *)
(*   "r503all" : 503 at every attempt (only the store "outage" has it)     *)
(***************************************************************************)
Scripts(s) ==
    IF s = "outage"
    THEN {"ok", "e404", "r503x4", "rate", "r503all"}
    ELSE {"ok", "e404", "r503x4", "rate"}

Resp(script, k) ==
    CASE script = "ok" -> NilErr
      [] script = "e404" -> ApiErr(404, <<"notFound">>)
      [] script = "r503x4" -> IF k <= 4 THEN ApiErr(503, << >>) ELSE NilErr
      [] script = "rate" ->
            IF k = 1 THEN ApiErr(403, <<"rateLimitExceeded">>)
            ELSE IF k = 2 THEN ApiErr(403, <<"userRateLimitExceeded">>)
            ELSE NilErr
      [] OTHER -> ApiErr(503, << >>)

(***************************************************************************)
(* State.                                                                  *)
(***************************************************************************)
VARIABLES
    cap,            \* the pacer's connection tokens (p.SetMaxConnections)
    store,          \* the store this run works on
    flag,           \* the remote's trash flag of every item
    faults,         \* calls that met a failing remote so far
    seen,           \* var seen = map[string]int{}
    countFolders,   \* var countFolders uint64
    countRestored,  \* var countRestored uint64
    wg,             \* the WaitGroup's counter
    inflight,       \* connection tokens of the pacer taken
    main,           \* the main goroutine
    tasks,          \* the other goroutines that have not returned
    log,            \* what log.Printf / log.Println / log.Fatalf wrote
    reported,       \* the two totals main printed, << >> before
    bodies,         \* per folder id: listing bodies started
    fetched,        \* per folder id: the page tokens getFolderPage was called with
    succ,           \* per item: untrash calls that returned nil
    dispatched,     \* per item: untrash goroutines started
    pages,          \* the pages handed to restoreTrashed
    rerr, rres      \* the input and the result of shouldRetry (SpecRetry)

vars == <<cap, store, flag, faults, seen, countFolders, countRestored, wg, inflight,
          main, tasks, log, reported, bodies, fetched, succ, dispatched, pages,
          rerr, rres>>

\* A goroutine.  kind is "main", "page" (the goroutine processFolder starts
\* for one page) or "restore" (the goroutine restoreTrashed starts for one
\* item).  fid and tok are the folderId and pageToken of the processFolder
\* call the goroutine is in, pg the pages that call has fetched and got the
\* files of the last one; script, att and err belong to the p.Call it is in
\* (att counts the invocations of the operation).  The page token is the
\* number of pages already handed out, 0 the empty token.
Thread(kind, scope, n, item, files, pc) ==
    [kind |-> kind, scope |-> scope, n |-> n, item |-> item, files |-> files,
     i |-> 1, pc |-> pc, fid |-> Root, tok |-> 0, pg |-> 0, got |-> << >>,
     script |-> "ok", att |-> 0, err |-> NilErr, counted |-> 0]

Threads == {main} \cup tasks

\* The process is running: main has neither returned nor called log.Fatalf.
Alive == main.pc \notin {"done", "fatal"}

\* Replace goroutine t by t2 and start the goroutines in new.
Step(t, t2, new) ==
    IF t.kind = "main"
    THEN /\ main' = t2
         /\ tasks' = tasks \cup new
    ELSE /\ main' = main
         /\ tasks' = (tasks \ {t}) \cup {t2} \cup new

\* Goroutine t returns.
Exit(t) ==
    /\ main' = main
    /\ tasks' = tasks \ {t}

Init ==
    /\ cap = MaxConnections
    /\ store \in Stores
    /\ flag = Flag0(store)
    /\ faults = 0
    /\ seen = [id \in Scopes |-> 0]
    /\ countFolders = 0
    /\ countRestored = 0
    /\ wg = 0
    /\ inflight = 0
    /\ main = Thread("main", Root, 0, Root, << >>, "start")
    /\ tasks = {}
    /\ log = {}
    /\ reported = << >>
    /\ bodies = [id \in Scopes |-> 0]
    /\ fetched = [id \in Scopes |-> << >>]
    /\ succ = [id \in Items |-> 0]
    /\ dispatched = [id \in Items |-> 0]
    /\ pages = {}
    /\ rerr = NilErr
    /\ rres = << >>

(***************************************************************************)
(* The pacer (github.com/rclone/rclone/lib/pacer).  Call takes a           *)
(* connection token, invokes the operation, gives the token back and       *)
(* repeats while the operation asks for a retry and attempts are left:     *)
(*     for i := 1; i <= retries; i++ { ...; if !retry { break } }          *)
(***************************************************************************)
\* The mutant of pacerRepeats that allows one attempt too many.
pacerRepeats_OffByOne(retry, i) == retry /\ i <= Retries

\* After attempt number i: does Call invoke the operation again?
pacerRepeats(retry, i) == retry /\ i < Retries

\* The mutant of Gated in which restoreTrashed calls Files.Untrash directly.
Gated_ListingOnly(t) == t.kind # "restore"

\* The remote operation of goroutine t runs inside p.Call, which admits it
\* only while a connection token is free.
Gated(t) == TRUE

\* The first attempt of a call meets the remote's script for that call.
ChooseScript(t, sc) ==
    IF t.att = 0
    THEN /\ sc \in Scripts(store)
         /\ sc = "ok" \/ faults < MaxFaults
         /\ faults' = (IF sc = "ok" THEN faults ELSE faults + 1)
    ELSE /\ sc = t.script
         /\ faults' = faults

\* The mutant of Snapshot that takes every trashed item for explicitly
\* trashed.
Snapshot_AnyTrashed(scope, pageNo) ==
    LET ids == SelectSeq(Listing(store, scope)[pageNo],
                         LAMBDA id : IsFolder(store, id) \/ flag[id] # "none")
    IN  [k \in 1..Len(ids) |->
            [id |-> ids[k], et |-> (flag[ids[k]] # "none"),
             folder |-> IsFolder(store, ids[k])]]

\* The files of one page as the remote returns them now: of the page's
\* items those that are a folder or trashed, with their explicitlyTrashed.
Snapshot(scope, pageNo) ==
    LET ids == SelectSeq(Listing(store, scope)[pageNo],
                         LAMBDA id : IsFolder(store, id) \/ flag[id] # "none")
    IN  [k \in 1..Len(ids) |->
            [id |-> ids[k], et |-> (flag[ids[k]] = "explicit"),
             folder |-> IsFolder(store, ids[k])]]

\* The mutant of NextToken that never announces a further page.
NextToken_FirstOnly(scope, pageNo) == 0

\* The mutant of NextToken that hands back the token the page was asked with.
NextToken_Stale(scope, pageNo) ==
    IF pageNo < Len(Listing(store, scope)) THEN pageNo - 1 ELSE 0

\* nextPageToken after page pageNo.
NextToken(scope, pageNo) ==
    IF pageNo < Len(Listing(store, scope)) THEN pageNo ELSE 0

\* folderID as restoreTrashed logs it.
LogName(scope) == IF scope = Root THEN "root" ELSE scope

(***************************************************************************)
(* main                                                                    *)
(***************************************************************************)
\* main up to the first processFolder call.
MainStart ==
    /\ main.pc = "start"
    /\ main' = [main EXCEPT !.pc = "claim", !.i = 1,
                   !.fid = IF Len(Args(store)) > 0 THEN Args(store)[1] ELSE Root]
    /\ UNCHANGED <<cap, store, flag, faults, seen, countFolders, countRestored, wg,
                   inflight, tasks, log, reported, bodies, fetched, succ,
                   dispatched, pages, rerr, rres>>

\* The locals of a processFolder call that has returned, and of its last
\* p.Call, are dead.
Forget(t) ==
    [t EXCEPT !.fid = Root, !.tok = 0, !.pg = 0, !.got = << >>,
              !.script = "ok", !.att = 0, !.err = NilErr]

\* The mutant of AfterCall in which restoreTrashed gives up its page when a
\* child folder cannot be listed (break instead of continue).
AfterCall_Break(t, failed) ==
    IF t.kind = "main"
    THEN IF Len(Args(store)) > 0
         THEN IF t.i < Len(Args(store))
              THEN [Forget(t) EXCEPT !.pc = "claim", !.i = t.i + 1,
                                     !.fid = Args(store)[t.i + 1]]
              ELSE [Forget(t) EXCEPT !.pc = "wait"]
         ELSE IF failed
              THEN [Forget(t) EXCEPT !.pc = "fatal"]
              ELSE [Forget(t) EXCEPT !.pc = "wait"]
    ELSE IF t.i < Len(t.files) /\ ~failed
         THEN [Forget(t) EXCEPT !.pc = "child", !.i = t.i + 1]
         ELSE [Forget(t) EXCEPT !.pc = "pdone"]

\* The caller of processFolder after the call returned (failed: with an
\* error): main goes to the next argument, or to wg.Wait, or dies in
\* log.Fatalf; restoreTrashed goes to the next child.
AfterCall(t, failed) ==
    IF t.kind = "main"
    THEN IF Len(Args(store)) > 0
         THEN IF t.i < Len(Args(store))
              THEN [Forget(t) EXCEPT !.pc = "claim", !.i = t.i + 1,
                                     !.fid = Args(store)[t.i + 1]]
              ELSE [Forget(t) EXCEPT !.pc = "wait"]
         ELSE IF failed
              THEN [Forget(t) EXCEPT !.pc = "fatal"]
              ELSE [Forget(t) EXCEPT !.pc = "wait"]
    ELSE IF t.i < Len(t.files)
         THEN [Forget(t) EXCEPT !.pc = "child", !.i = t.i + 1]
         ELSE [Forget(t) EXCEPT !.pc = "pdone"]

\* What the caller logs when processFolder returned an error.
CallerLog(t) ==
    IF t.kind = "main"
    THEN IF Len(Args(store)) > 0
         THEN <<"Unable to list folder", t.fid, "">>
         ELSE <<"Unable to list drive", t.fid, "">>
    ELSE <<"unable to list", t.fid, "">>

\* wg.Wait() returns.
MainWait ==
    /\ main.pc = "wait"
    /\ wg = 0
    /\ main' = [main EXCEPT !.pc = "report"]
    /\ UNCHANGED <<cap, store, flag, faults, seen, countFolders, countRestored, wg,
                   inflight, tasks, log, reported, bodies, fetched, succ,
                   dispatched, pages, rerr, rres>>

\* main prints the two totals and returns.
MainReport ==
    /\ main.pc = "report"
    /\ reported' = <<countFolders, countRestored>>
    /\ main' = [main EXCEPT !.pc = "done"]
    /\ UNCHANGED <<cap, store, flag, faults, seen, countFolders, countRestored, wg,
                   inflight, tasks, log, bodies, fetched, succ, dispatched,
                   pages, rerr, rres>>

(***************************************************************************)
(* processFolder, run by main or by a page goroutine t                     *)
(***************************************************************************)
\* The mutant of Skips that lets the second caller through as well.
Skips_OffByOne(count) == count > 1

\* if count > 0 { return nil }
Skips(count) == count > 0

\* The mutant of Claim that forgets seen[folderId]++.
Claim_NoMark(t) ==
    /\ Alive
    /\ t.pc = "claim"
    /\ IF Skips(seen[t.fid])
       THEN Step(t, AfterCall(t, FALSE), {})
       ELSE Step(t, [t EXCEPT !.pc = "count"], {})
    /\ UNCHANGED <<cap, store, flag, faults, seen, countFolders, countRestored,
                   wg, inflight, log, reported, bodies, fetched, succ,
                   dispatched, pages, rerr, rres>>

\* seenMutex.Lock(); count := seen[folderId]; seen[folderId]++; Unlock();
\* and the return of a call that finds the folder seen.
Claim(t) ==
    /\ Alive
    /\ t.pc = "claim"
    /\ seen' = [seen EXCEPT ![t.fid] = @ + 1]
    /\ IF Skips(seen[t.fid])
       THEN Step(t, AfterCall(t, FALSE), {})
       ELSE Step(t, [t EXCEPT !.pc = "count"], {})
    /\ UNCHANGED <<cap, store, flag, faults, countFolders, countRestored, wg,
                   inflight, log, reported, bodies, fetched, succ, dispatched,
                   pages, rerr, rres>>

\* atomic.AddUint64(&countFolders, 1); var pageToken string
CountFolder(t) ==
    /\ Alive
    /\ t.pc = "count"
    /\ countFolders' = countFolders + 1
    /\ bodies' = [bodies EXCEPT ![t.fid] = @ + 1]
    /\ Step(t, [t EXCEPT !.pc = "fetch", !.tok = 0, !.pg = 0, !.att = 0], {})
    /\ UNCHANGED <<cap, store, flag, faults, seen, countRestored, wg, inflight, log,
                   reported, fetched, succ, dispatched, pages, rerr, rres>>

\* getFolderPage: p.Call takes a connection token and invokes the listing.
FetchBegin(t) ==
    /\ Alive
    /\ t.pc = "fetch"
    /\ Gated(t) => inflight < cap
    /\ inflight' = inflight + 1
    /\ \E sc \in Scripts(store) :
          /\ ChooseScript(t, sc)
          /\ Step(t, [t EXCEPT !.pc = "fetching", !.script = sc], {})
    /\ fetched' = IF t.att = 0
                  THEN [fetched EXCEPT ![t.fid] = Append(@, t.tok)]
                  ELSE fetched
    /\ UNCHANGED <<cap, store, flag, seen, countFolders, countRestored, wg, log,
                   reported, bodies, succ, dispatched, pages, rerr, rres>>

\* getFolderPage: the listing answers; p.Call gives the token back and
\* either repeats the listing or returns to getFolderPage, which returns the
\* page and the next token, or an error.
FetchEnd(t) ==
    /\ Alive
    /\ t.pc = "fetching"
    /\ inflight' = inflight - 1
    /\ LET r == shouldRetry(Resp(t.script, t.att + 1))
           u == [t EXCEPT !.att = t.att + 1, !.err = r[2]]
       IN  IF pacerRepeats(r[1], t.att + 1)
           THEN Step(t, [u EXCEPT !.pc = "fetch"], {})
           ELSE IF r[2].kind # "nil"
                THEN Step(t, [u EXCEPT !.pc = "listfail"], {})
                ELSE Step(t, [u EXCEPT !.pc = "spawn",
                                       !.got = Snapshot(t.fid, t.tok + 1),
                                       !.pg = t.pg + 1,
                                       !.tok = NextToken(t.fid, t.tok + 1)], {})
    /\ UNCHANGED <<cap, store, flag, faults, seen, countFolders, countRestored, wg,
                   log, reported, bodies, fetched, succ, dispatched, pages,
                   rerr, rres>>

\* The mutant of ListFail that logs the error and asks for the page again
\* (continue instead of return).
ListFail_Retry(t) ==
    /\ Alive
    /\ t.pc = "listfail"
    /\ log' = log \cup {CallerLog(t)}
    /\ Step(t, [t EXCEPT !.pc = "fetch", !.att = 0, !.script = "ok"], {})
    /\ UNCHANGED <<cap, store, flag, faults, seen, countFolders, countRestored,
                   wg, inflight, reported, bodies, fetched, succ, dispatched,
                   pages, rerr, rres>>

\* processFolder returns "Failed to get file listing"; its caller logs it.
ListFail(t) ==
    /\ Alive
    /\ t.pc = "listfail"
    /\ log' = log \cup {CallerLog(t)}
    /\ Step(t, AfterCall(t, TRUE), {})
    /\ UNCHANGED <<cap, store, flag, faults, seen, countFolders, countRestored, wg,
                   inflight, reported, bodies, fetched, succ, dispatched, pages,
                   rerr, rres>>

\* The goroutine processFolder starts for the page it got.
PageTask(t) ==
    [Thread("page", t.fid, t.pg, Root, t.got,
            IF Len(t.got) > 0 THEN "child" ELSE "pdone") EXCEPT !.i = 1]

\* wg.Add(1); go func(...){ restoreTrashed(...); wg.Done() }(...); and the
\* end of the loop at the last page.
Spawn(t) ==
    /\ Alive
    /\ t.pc = "spawn"
    /\ wg' = wg + 1
    /\ pages' = pages \cup {[scope |-> t.fid, n |-> t.pg, files |-> t.got]}
    /\ IF t.tok = 0
       THEN Step(t, AfterCall(t, FALSE), {PageTask(t)})
       ELSE Step(t, [t EXCEPT !.pc = "fetch", !.att = 0, !.script = "ok",
                                      !.got = << >>], {PageTask(t)})
    /\ UNCHANGED <<cap, store, flag, faults, seen, countFolders, countRestored,
                   inflight, log, reported, bodies, fetched, succ, dispatched,
                   rerr, rres>>

(***************************************************************************)
(* restoreTrashed, run by the page goroutine t                             *)
(***************************************************************************)
\* The goroutine restoreTrashed starts for child c.
RestoreTask(t, c) == Thread("restore", t.scope, t.n, c.id, << >>, "untrash")

\* The mutant of Registers that starts the goroutine without wg.Add(1).
Registers_None(c) == 0

\* wg.Add(1) in front of the go statement of an explicitly trashed child.
Registers(c) == IF c.et THEN 1 ELSE 0

\* One pass of the loop over childs, up to the processFolder call.
Child(t) ==
    /\ Alive
    /\ t.pc = "child"
    /\ LET c == t.files[t.i]
           new == IF c.et THEN {RestoreTask(t, c)} ELSE {}
       IN  /\ wg' = wg + Registers(c)
           /\ dispatched' = IF c.et
                            THEN [dispatched EXCEPT ![c.id] = @ + 1]
                            ELSE dispatched
           /\ IF c.folder
              THEN Step(t, [t EXCEPT !.pc = "claim", !.fid = c.id], new)
              ELSE Step(t, AfterCall(t, FALSE), new)
    /\ UNCHANGED <<cap, store, flag, faults, seen, countFolders, countRestored,
                   inflight, log, reported, bodies, fetched, succ, pages, rerr,
                   rres>>

\* restoreTrashed returned: wg.Done() of the page goroutine.
PageDone(t) ==
    /\ Alive
    /\ t.pc = "pdone"
    /\ wg' = wg - 1
    /\ Exit(t)
    /\ UNCHANGED <<cap, store, flag, faults, seen, countFolders, countRestored,
                   inflight, log, reported, bodies, fetched, succ, dispatched,
                   pages, rerr, rres>>

(***************************************************************************)
(* The goroutine of one explicitly trashed item                            *)
(***************************************************************************)
\* p.Call takes a connection token and invokes Files.Untrash.
UntrashBegin(t) ==
    /\ Alive
    /\ t.pc = "untrash"
    /\ Gated(t) => inflight < cap
    /\ inflight' = inflight + 1
    /\ \E sc \in Scripts(store) :
          /\ ChooseScript(t, sc)
          /\ Step(t, [t EXCEPT !.pc = "untrashing", !.script = sc], {})
    /\ UNCHANGED <<cap, store, flag, seen, countFolders, countRestored, wg, log,
                   reported, bodies, fetched, succ, dispatched, pages, rerr,
                   rres>>

\* Files.Untrash answers; p.Call gives the token back and repeats the call
\* or returns.  An answer without error has cleared the item's trash flag.
UntrashEnd(t) ==
    /\ Alive
    /\ t.pc = "untrashing"
    /\ inflight' = inflight - 1
    /\ LET r == shouldRetry(Resp(t.script, t.att + 1))
           u == [t EXCEPT !.att = t.att + 1, !.err = r[2]]
           ok == Resp(t.script, t.att + 1).kind = "nil"
       IN  /\ flag' = IF ok THEN [flag EXCEPT ![t.item] = "none"] ELSE flag
           /\ IF pacerRepeats(r[1], t.att + 1)
              THEN /\ Step(t, [u EXCEPT !.pc = "untrash"], {})
                   /\ succ' = succ
              ELSE /\ Step(t, [u EXCEPT !.pc = "result"], {})
                   /\ succ' = IF r[2].kind = "nil"
                              THEN [succ EXCEPT ![t.item] = @ + 1]
                              ELSE succ
    /\ UNCHANGED <<cap, store, faults, seen, countFolders, countRestored, wg, log,
                   reported, bodies, fetched, dispatched, pages, rerr, rres>>

\* The mutant of Restored that counts the item whatever p.Call returned.
Restored_Always(err) == TRUE

\* if err != nil { log.Printf("Failed to restore file ...") } else { count }
Restored(err) == err.kind = "nil"

\* The branch on the error of p.Call.
RestoreResult(t) ==
    /\ Alive
    /\ t.pc = "result"
    /\ IF Restored(t.err)
       THEN /\ countRestored' = countRestored + 1
            /\ log' = log
            /\ Step(t, [t EXCEPT !.pc = "rdone", !.counted = t.counted + 1], {})
       ELSE /\ countRestored' = countRestored
            /\ log' = log \cup {<<"Failed to restore file", t.item, LogName(t.scope)>>}
            /\ Step(t, [t EXCEPT !.pc = "rdone"], {})
    /\ UNCHANGED <<cap, store, flag, faults, seen, countFolders, wg, inflight,
                   reported, bodies, fetched, succ, dispatched, pages, rerr,
                   rres>>

\* wg.Done() of the item's goroutine.
RestoreDone(t) ==
    /\ Alive
    /\ t.pc = "rdone"
    /\ wg' = wg - 1
    /\ Exit(t)
    /\ UNCHANGED <<cap, store, flag, faults, seen, countFolders, countRestored,
                   inflight, log, reported, bodies, fetched, succ, dispatched,
                   pages, rerr, rres>>

Next ==
    \/ MainStart
    \/ MainWait
    \/ MainReport
    \/ \E t \in Threads : Claim(t)
    \/ \E t \in Threads : CountFolder(t)
    \/ \E t \in Threads : FetchBegin(t)
    \/ \E t \in Threads : FetchEnd(t)
    \/ \E t \in Threads : ListFail(t)
    \/ \E t \in Threads : Spawn(t)
    \/ \E t \in tasks : Child(t)
    \/ \E t \in tasks : PageDone(t)
    \/ \E t \in tasks : UntrashBegin(t)
    \/ \E t \in tasks : UntrashEnd(t)
    \/ \E t \in tasks : RestoreResult(t)
    \/ \E t \in tasks : RestoreDone(t)

Spec == Init /\ [][Next]_vars

(***************************************************************************)
(* The same program behind a pacer with one or two connection tokens.      *)
(***************************************************************************)
GateCaps == {1, 2}

InitGate ==
    /\ cap \in GateCaps
    /\ store \in Stores
    /\ flag = Flag0(store)
    /\ faults = 0
    /\ seen = [id \in Scopes |-> 0]
    /\ countFolders = 0
    /\ countRestored = 0
    /\ wg = 0
    /\ inflight = 0
    /\ main = Thread("main", Root, 0, Root, << >>, "start")
    /\ tasks = {}
    /\ log = {}
    /\ reported = << >>
    /\ bodies = [id \in Scopes |-> 0]
    /\ fetched = [id \in Scopes |-> << >>]
    /\ succ = [id \in Items |-> 0]
    /\ dispatched = [id \in Items |-> 0]
    /\ pages = {}
    /\ rerr = NilErr
    /\ rres = << >>

SpecGate == InitGate /\ [][Next]_vars

(***************************************************************************)
(* shouldRetry on its own: SpecRetry draws an error value and classifies   *)
(* it.                                                                     *)
(***************************************************************************)
Codes == {200, 400, 403, 404, 429, 499, 500, 503, 599, 600}
Reasons == {"rateLimitExceeded", "userRateLimitExceeded", "notFound"}
ReasonLists ==
    {<< >>} \cup {<<a>> : a \in Reasons} \cup {<<a, b>> : a \in Reasons, b \in Reasons}
ErrInputs ==
    {NilErr, OtherErr} \cup {ApiErr(c, rs) : c \in Codes, rs \in ReasonLists}

InitRetry ==
    /\ cap = MaxConnections
    /\ store = "shared"
    /\ flag = Flag0(store)
    /\ faults = 0
    /\ seen = [id \in Scopes |-> 0]
    /\ countFolders = 0
    /\ countRestored = 0
    /\ wg = 0
    /\ inflight = 0
    /\ main = Thread("main", Root, 0, Root, << >>, "start")
    /\ tasks = {}
    /\ log = {}
    /\ reported = << >>
    /\ bodies = [id \in Scopes |-> 0]
    /\ fetched = [id \in Scopes |-> << >>]
    /\ succ = [id \in Items |-> 0]
    /\ dispatched = [id \in Items |-> 0]
    /\ pages = {}
    /\ rerr \in ErrInputs
    /\ rres = << >>

\* retry, err := shouldRetry(err)
Classify ==
    /\ rres = << >>
    /\ rres' = shouldRetry(rerr)
    /\ UNCHANGED <<cap, store, flag, faults, seen, countFolders, countRestored, wg,
                   inflight, main, tasks, log, reported, bodies, fetched, succ,
                   dispatched, pages, rerr>>

NextRetry == Classify

SpecRetry == InitRetry /\ [][NextRetry]_vars

(***************************************************************************)
(* Properties.                                                             *)
(***************************************************************************)
\* main is past wg.Wait().
Waited == main.pc \in {"report", "done"}

\* The goroutines that are inside the processFolder call for folder id and
\* have claimed it but not yet counted it.
Claiming(id) == {t \in Threads : t.pc = "count" /\ t.fid = id}

\* How often main calls processFolder for id: once per occurrence among the
\* root arguments, or once for the whole store when there are none.
RootCalls(id) ==
    IF Len(Args(store)) > 0
    THEN Cardinality({k \in 1..Len(Args(store)) : Args(store)[k] = id})
    ELSE IF id = Root THEN 1 ELSE 0

\* The entries of the pages handed to restoreTrashed that satisfy P.
Entries(P(_)) ==
    UNION {{<<p, k>> : k \in {j \in 1..Len(p.files) : P(p.files[j])}} : p \in pages}

\* The message of a failed restore of item in the page of scope.
RestoreFailed(item, scope) == <<"Failed to restore file", item, LogName(scope)>>

\* The p.Call of goroutine t has returned.
Returned(t) == t.pc \in {"spawn", "listfail", "result", "rdone"}

\* C1: every folder id is listed at most once however many processFolder
\* calls name it: of the calls for one id exactly one proceeds past the seen
\* check, the listing body starts once, its getFolderPage calls use the
\* tokens 0, 1, ... once each, and when main is done every id that was ever
\* named has had its one listing body.
C1_ListedOnce ==
    \A id \in Scopes :
        /\ bodies[id] <= 1
        /\ seen[id] > 0 => bodies[id] + Cardinality(Claiming(id)) = 1
        /\ Len(fetched[id]) <= Len(Listing(store, id))
        /\ \A k \in 1..Len(fetched[id]) : fetched[id][k] = k - 1
        /\ bodies[id] = 0 => fetched[id] = << >>
        /\ main.pc = "done" /\ seen[id] > 0 => bodies[id] = 1

\* C1 witness: the run on the store "shared" is over; A was named three
\* times (twice as a root, once as a child of B), B twice, each listed once.
C1_Witness ==
    /\ store = "shared"
    /\ main.pc = "done"
    /\ seen["A"] = 3 /\ seen["B"] = 2
    /\ bodies["A"] = 1 /\ bodies["B"] = 1
    /\ fetched["A"] = <<0, 1>>

\* C2 (as claimed): after wg.Wait() countRestored is the number of items
\* whose untrash call succeeded, each item counted once.
C2_RestoredIsItems ==
    Waited => countRestored = Cardinality({id \in Items : succ[id] > 0})

\* C3: the barrier does not release early.  The WaitGroup counter is the
\* number of goroutines registered and not yet done, so it is positive
\* while main waits and a goroutine runs, and once wg.Wait() has returned
\* no goroutine is left and none is registered.
C3_BarrierHolds ==
    /\ wg = Cardinality(tasks)
    /\ main.pc = "wait" /\ tasks # {} => wg > 0
    /\ Waited => tasks = {} /\ wg = 0

\* C3 witness: wg.Wait() has returned in a run that started page and item
\* goroutines and in which an item's goroutine took the failure path.
C3_Witness ==
    /\ main.pc = "report"
    /\ store = "shared"
    /\ Cardinality(pages) = 3
    /\ dispatched["F1"] = 1
    /\ RestoreFailed("F1", "A") \in log

\* C4 (as claimed): every run ends with main past wg.Wait() printing the
\* totals, after at most one listing body per folder id: a state in which
\* nothing can happen any more is the state after the report.
C4_RunCompletes ==
    /\ \A id \in Scopes : bodies[id] <= 1
    /\ main.pc = "done" \/ ENABLED Next

\* The listing failures that have been logged.
ListFailures ==
    {e \in log : e[1] \in {"unable to list", "Unable to list folder",
                           "Unable to list drive"}}

\* C5 (as claimed): a page-fetch failure of any scope is logged and does not
\* fail the run: main still goes through wg.Wait() and reports the totals.
C5_FetchFailureNotFatal ==
    ListFailures # {} =>
        /\ main.pc # "fatal"
        /\ main.pc = "done" =>
              tasks = {} /\ reported = <<countFolders, countRestored>>

\* C6: failures are isolated.  When main is past wg.Wait(), every explicitly
\* trashed entry of every page has had its goroutine started, and every
\* folder entry of every page and every root argument has had its
\* processFolder call, whatever failed.
C6_Isolation ==
    Waited =>
        /\ \A id \in Items :
              dispatched[id] =
                  Cardinality(Entries(LAMBDA c : c.id = id /\ c.et))
        /\ \A id \in Scopes :
              seen[id] = RootCalls(id)
                  + Cardinality(Entries(LAMBDA c : c.id = id /\ c.folder))

\* C6 witness: the listing of child folder B failed and the untrash of B
\* failed, and F1, which follows B in the page, was restored; the root
\* arguments after A were processed.
C6_Witness ==
    /\ main.pc = "done"
    /\ store = "shared"
    /\ <<"unable to list", "B", "">> \in log
    /\ RestoreFailed("B", "A") \in log
    /\ succ["F1"] = 1
    /\ seen["B"] = 2 /\ seen["A"] = 2

\* C7: an untrash call that meets 503 four times and then succeeds is
\* invoked five times, returns nil, counts the item once and logs no
\* failure for it.
C7_FourRetriesThenSuccess ==
    \A t \in tasks :
        t.kind = "restore" /\ t.script = "r503x4" =>
            /\ t.att <= 5
            /\ Returned(t) => t.att = 5 /\ t.err = NilErr
            /\ t.pc = "rdone" =>
                  /\ t.counted = 1
                  /\ RestoreFailed(t.item, t.scope) \notin log
            /\ t.pc # "rdone" => t.counted = 0

\* C7 witness: such a call has returned and its item is counted.
C7_Witness ==
    \E t \in tasks :
        /\ t.kind = "restore" /\ t.script = "r503x4"
        /\ t.pc = "rdone" /\ t.att = 5 /\ t.counted = 1
        /\ countRestored >= 1

\* C8: a call that meets 404 is invoked once and returns the error: the
\* listing fails, or the item is logged as failed and not counted.
C8_TerminalNoRetry ==
    \A t \in Threads :
        t.script = "e404" =>
            /\ t.att <= 1
            /\ t.att = 0 => t.pc \in {"fetching", "untrashing"}
            /\ t.att = 1 =>
                  /\ t.err = ApiErr(404, <<"notFound">>)
                  /\ t.pc \in (IF t.kind = "restore"
                               THEN {"result", "rdone"} ELSE {"listfail"})
            /\ t.counted = 0
            /\ t.pc = "rdone" => RestoreFailed(t.item, t.scope) \in log

\* C8 witness: a listing and an untrash call have both met 404 and returned.
C8_Witness ==
    /\ \E t \in Threads : t.script = "e404" /\ t.pc = "listfail"
    /\ \E t \in tasks : t.script = "e404" /\ t.pc = "rdone"

\* What C9 calls retryable; the reason of an API error is that of its
\* first error entry.
Retryable(err) ==
    /\ err.kind = "api"
    /\ \/ err.code \in 500..599
       \/ /\ err.reasons # << >>
          /\ Head(err.reasons) \in {"rateLimitExceeded", "userRateLimitExceeded"}

\* C9: shouldRetry answers retry exactly for an API error with a 5xx code or
\* a rate-limit reason, and returns the error it was given.
C9_Classification ==
    rres # << >> =>
        /\ rres[2] = rerr
        /\ rres[1] = Retryable(rerr)

\* C9 witness: a 403 with the reason userRateLimitExceeded was classified
\* as retryable.
C9_Witness ==
    /\ rerr = ApiErr(403, <<"userRateLimitExceeded">>)
    /\ rres = <<TRUE, rerr>>

\* C10: no call invokes its operation more than Retries times; a call that
\* meets a retryable error at every attempt stops after Retries attempts
\* and returns the last error: the listing fails, or the item is logged as
\* failed and not counted.
C10_RetryBudget ==
    \A t \in Threads :
        /\ t.att <= Retries
        /\ t.script = "r503all" =>
              /\ t.pc \in {"fetch", "fetching", "untrash", "untrashing",
                           "listfail", "result", "rdone"}
              /\ Returned(t) =>
                    /\ t.att = Retries
                    /\ t.err = ApiErr(503, << >>)
              /\ t.counted = 0
              /\ t.pc = "rdone" => RestoreFailed(t.item, t.scope) \in log

\* C10 witness: an untrash call and a listing have both used up the
\* attempts.
C10_Witness ==
    /\ \E t \in tasks :
          t.kind = "restore" /\ t.script = "r503all" /\ t.pc = "rdone"
             /\ t.att = Retries
    /\ <<"unable to list", "B", "">> \in log

\* The goroutines with a remote operation in flight, and those waiting for
\* a connection token.
InFlight == {t \in Threads : t.pc \in {"fetching", "untrashing"}}
Asking == {t \in Threads : t.pc \in {"fetch", "untrash"}}

\* C11: the remote operations in flight, listings and untrash calls
\* together, never exceed the connection cap, and while the cap is reached
\* no goroutine that asks for admission gets it.
C11_ConnectionCap ==
    /\ inflight = Cardinality(InFlight)
    /\ inflight <= cap
    /\ inflight = cap =>
          ~ENABLED (\E t \in Threads : FetchBegin(t) \/ UntrashBegin(t))

\* C11 witness: both tokens are taken and a goroutine waits for one.
C11_Witness ==
    /\ cap = 2
    /\ inflight = cap
    /\ \E t \in Asking : t.kind = "restore"
    /\ \E t \in InFlight : t.kind # "restore"

\* The items a scope lists.
ChildrenOf(scope) ==
    UNION {{Listing(store, scope)[n][k] : k \in 1..Len(Listing(store, scope)[n])} :
              n \in 1..Len(Listing(store, scope))}

\* The scopes main starts from.
RootScopes ==
    IF Len(Args(store)) > 0
    THEN {Args(store)[k] : k \in 1..Len(Args(store))}
    ELSE {Root}

RECURSIVE ReachFrom(_)
\* The scopes reachable from S through listed child folders.
ReachFrom(S) ==
    LET more == S \cup {c \in Scopes :
                          \E f \in S : c \in ChildrenOf(f) /\ IsFolder(store, c)}
    IN  IF more = S THEN S ELSE ReachFrom(more)

\* The explicitly trashed items in scope of the run.
Targets ==
    {id \in Items :
        /\ Flag0(store)[id] = "explicit"
        /\ \/ Len(Args(store)) = 0
           \/ \E f \in ReachFrom(RootScopes) : id \in ChildrenOf(f)}

\* C12: when no call failed for good, at the end of the run every
\* explicitly trashed item in scope has had a successful untrash call.
C12_Coverage ==
    main.pc = "done" /\ log = {} =>
        \A id \in Targets : succ[id] >= 1 /\ flag[id] = "none"

\* C12 witness: such a run on the store "shared", in which calls were
\* retried and A and B were skipped as already seen.
C12_Witness ==
    /\ store = "shared"
    /\ main.pc = "done" /\ log = {}
    /\ faults = 2
    /\ seen["A"] = 3 /\ seen["B"] = 2
    /\ succ["B"] = 1 /\ succ["F1"] = 1

\* The folder ids some processFolder call has named.
Named == {id \in Scopes : seen[id] > 0}

\* What C13 says of every state.
CountersInv ==
    /\ countFolders = Cardinality({id \in Scopes : bodies[id] >= 1})
    /\ countFolders = Cardinality(Named)
                        - Cardinality({t \in Threads : t.pc = "count"})
    /\ main.pc = "done" => reported = <<Cardinality(Named), countRestored>>
    /\ store = "shared" /\ Waited =>
          /\ countFolders = 2
          /\ bodies["B"] = 1
          /\ dispatched["F1"] <= 1
          /\ ListFailures = {} => dispatched["F1"] = 1

\* C13: the counters never decrease, countFolders goes up once per
\* successful claim and ends as the number of distinct ids claimed; with
\* roots A and B, B in A and F1 in A, B is listed once, F1 gets one untrash
\* call and countFolders ends as 2.
C13_Counters ==
    /\ []CountersInv
    /\ [][countFolders' >= countFolders /\ countRestored' >= countRestored]_vars

\* C13 witness: the run on the store "shared" has reported 2 folders after
\* A was named three times and B twice.
C13_Witness ==
    /\ store = "shared"
    /\ main.pc = "done"
    /\ reported[1] = 2
    /\ seen["A"] = 3 /\ seen["B"] = 2
    /\ dispatched["F1"] = 1 /\ succ["F1"] = 1

\* C14 (as claimed): when all calls succeed the totals are those the store
\* determines, whatever the schedule: countRestored is the number of
\* explicitly trashed items in scope, countFolders the number of scopes.
C14_ScheduleIndependent ==
    Waited /\ log = {} =>
        /\ countRestored = Cardinality(Targets)
        /\ countFolders = Cardinality(ReachFrom(RootScopes))

\* C15 (as claimed): no item has more than one untrash goroutine in a run.
C15_NoDoubleRestore ==
    \A id \in Items : dispatched[id] <= 1

\* The listing of scope id has failed.
ListFailed(id) == \E e \in ListFailures : e[2] = id

\* The pages of scope id handed to restoreTrashed.
PagesOf(id) == {p \in pages : p.scope = id}

\* The goroutines inside the listing body of scope id.
Listing_In(id) ==
    {t \in Threads :
        t.fid = id /\ t.pc \in {"count", "fetch", "fetching", "spawn", "listfail"}}

\* C16 (as claimed): when a page fetch of a scope fails, no child of that
\* scope is traversed and no item of it restored by that traversal: none of
\* its pages went to restoreTrashed.
C16_NothingDispatched ==
    \A id \in Scopes : ListFailed(id) => PagesOf(id) = {}

\* C16 (amended): when a page fetch of a scope fails the listing loop ends:
\* no further page is fetched and neither the failed page nor a later one
\* goes to restoreTrashed; the pages fetched before it have gone there.
C16_AbortsAtFailure ==
    \A id \in Scopes :
        ListFailed(id) =>
            /\ Listing_In(id) = {}
            /\ Cardinality(PagesOf(id)) = Len(fetched[id]) - 1
            /\ \A q \in PagesOf(id) : q.n < Len(fetched[id])

\* C16 witness: the second page of A failed after the first had gone to
\* restoreTrashed, and the run is over.
C16_Witness ==
    /\ store = "shared"
    /\ main.pc = "done"
    /\ ListFailed("A")
    /\ fetched["A"] = <<0, 1>>
    /\ Cardinality(PagesOf("A")) = 1
    /\ dispatched["F1"] = 1

\* C17: an untrash goroutine is started only for an entry of a fetched page
\* with explicitlyTrashed = true; an item that is not explicitly trashed is
\* never untrashed and keeps its flag; folder entries are traversed whether
\* trashed or not.
C17_OnlyExplicit ==
    /\ \A id \in Items :
          /\ dispatched[id] <= Cardinality(Entries(LAMBDA c : c.id = id /\ c.et))
          /\ succ[id] <= dispatched[id]
          /\ Flag0(store)[id] # "explicit" =>
                dispatched[id] = 0 /\ flag[id] = Flag0(store)[id]
    /\ \A t \in tasks :
          t.kind = "restore" =>
              \E q \in pages :
                  /\ q.scope = t.scope /\ q.n = t.n
                  /\ \E k \in 1..Len(q.files) :
                        q.files[k].id = t.item /\ q.files[k].et
    /\ Waited =>
          \A e \in Entries(LAMBDA c : c.folder) : seen[e[1].files[e[2]].id] >= 1

\* C17 witness: F2, trashed only through B, came back in a page and was left
\* alone; B, explicitly trashed, and A, not trashed, were both traversed.
C17_Witness ==
    /\ store = "shared"
    /\ Waited
    /\ \E q \in PagesOf("A") :
          q.n = 2 /\ Len(q.files) = 1 /\ q.files[1].id = "F2" /\ ~q.files[1].et
    /\ dispatched["F2"] = 0
    /\ dispatched["B"] = 1
    /\ bodies["A"] = 1 /\ bodies["B"] = 1

\* C18: things happen in causal order.  A folder is listed only after its
\* claim, a page exists only for a claimed folder whose listing asked for
\* it, a child folder is named only after a page that holds it was fetched,
\* and an untrash goroutine exists only for an entry of a fetched page.
C18_CausalOrder ==
    /\ \A id \in Scopes :
          /\ fetched[id] # << >> \/ Listing_In(id) # {} => seen[id] >= 1
          /\ fetched[id] # << >> => bodies[id] = 1
          /\ seen[id] > 0 /\ id \notin RootScopes =>
                Entries(LAMBDA c : c.id = id /\ c.folder) # {}
    /\ \A q \in pages :
          /\ bodies[q.scope] = 1
          /\ q.n <= Len(fetched[q.scope])
    /\ \A id \in Items :
          dispatched[id] > 0 => Entries(LAMBDA c : c.id = id /\ c.et) # {}

\* C18 witness: the untrash of F1 is in flight while B, found in the same
\* page of A, is being listed.
C18_Witness ==
    /\ store = "outage"
    /\ \E t \in tasks : t.kind = "restore" /\ t.item = "F1" /\ t.pc = "untrashing"
    /\ \E t \in tasks : t.kind = "page" /\ t.fid = "B" /\ t.pc = "fetching"

\* The ids of the files of a page.
IdsOf(files) == [k \in 1..Len(files) |-> files[k].id]
Range(f) == {f[k] : k \in 1..Len(f)}

\* C19: the pages of a scope are fetched one after the other with the
\* tokens "", 1, 2, ... up to the page without a next token; every page
\* fetched goes to restoreTrashed once, on its own, holding in the remote's
\* order the items of that page of the listing, all its folders and all
\* items still trashed among them.
C19_Pagination ==
    /\ \A id \in Scopes :
          /\ Len(fetched[id]) <= Len(Listing(store, id))
          /\ \A k \in 1..Len(fetched[id]) : fetched[id][k] = k - 1
          /\ {q.n : q \in PagesOf(id)} = 1..Cardinality(PagesOf(id))
          /\ Cardinality(PagesOf(id)) \in
                {Len(fetched[id]) - 1, Len(fetched[id])}
          /\ main.pc = "done" /\ bodies[id] = 1 /\ ~ListFailed(id) =>
                Cardinality(PagesOf(id)) = Len(Listing(store, id))
    /\ \A q \in pages :
          LET all == Listing(store, q.scope)[q.n]
          IN  /\ IdsOf(q.files)
                    = SelectSeq(all, LAMBDA x : x \in Range(IdsOf(q.files)))
              /\ \A x \in Range(all) :
                    IsFolder(store, x) \/ flag[x] # "none"
                        => x \in Range(IdsOf(q.files))
    /\ \A t \in Threads :
          t.pc = "spawn" =>
              /\ t.pg = Len(fetched[t.fid])
              /\ Range(IdsOf(t.got)) \subseteq Range(Listing(store, t.fid)[t.pg])

\* C19 witness: the three pages of the unscoped listing were fetched with
\* the tokens "", 1, 2 and each went to restoreTrashed.
C19_Witness ==
    /\ store = "whole"
    /\ main.pc = "done"
    /\ fetched[Root] = <<0, 1, 2>>
    /\ Cardinality(PagesOf(Root)) = 3

\* C20 (as claimed): the traversal of a child folder is a task of its own,
\* so no later entry of a page waits while the goroutine of that page runs
\* the listing loop of an earlier child folder.
C20_NoEntryWaits ==
    \A t \in tasks :
        t.kind = "page"
          /\ t.pc \in {"count", "fetch", "fetching", "spawn", "listfail"}
        => t.i = Len(t.files)

\* C21 (as claimed): the run cannot deadlock on its shared resources.  A
\* goroutine that holds a connection token waits for nothing and can end
\* its remote operation, and every goroutine that waits is admitted in the
\* end: in a state in which nothing can happen any more no goroutine is left
\* waiting for a connection token and main is not left in wg.Wait().
C21_NoDeadlock ==
    /\ \A t \in InFlight :
          Alive => ENABLED (FetchEnd(t) \/ UntrashEnd(t))
    /\ ~ENABLED Next => Asking = {} /\ main.pc # "wait"

====
